---- MODULE Spec2Model ----
(***************************************************************************)
(* Model of the troubleshooting two-step flow of main.py (the pending      *)
(* confirmation store guarded by PENDING_LOCK), of the runbook cloner      *)
(* create_new_runbook of utils.py, of the request handlers of main.py and  *)
(* apitimeissue.py, of the job output poller of apitimeissue.py and of the *)
(* reply handling of the agents.                                           *)
(*                                                                         *)
(* Request handlers run on worker threads.  A handler is cut into steps at *)
(* the points where another thread can be observed: entering a locked     *)
(* section (which waits until PENDING_LOCK is free), each further          *)
(* statement group inside a locked section, each remote call.              *)
(***************************************************************************)
EXTENDS Integers, Sequences, FiniteSets, TLC

VARIABLES
    pending,      \* PENDING_CONFIRMATIONS: target_machine -> entry
    lock,         \* PENDING_LOCK: the thread holding it, or NoThread
    now,          \* the clock read by datetime.utcnow() / datetime.now()
    pc,           \* per worker thread: position inside its handler
    req,          \* per worker thread: the request being served
    loc,          \* per worker thread: the handler's local variables
    last,         \* the request answered last and its response
    nreq,         \* number of requests accepted so far
    hist,         \* history: per entry ever written to the store (by id),
                  \* what was stored and what happened to it since
    clone,        \* the cloner under test (specification SpecClone)
    flow,         \* one request through one handler (specification SpecFlow)
    account,      \* the Automation account: the runbook registrations made
                  \* so far, in order (specification SpecNames)
    text,         \* a text function under test (specification SpecText)
    poller        \* one call of get_runbook_output and the job it polls
                  \* (specifications SpecPoll and SpecPollFair)

vars == <<pending, lock, now, pc, req, loc, last, nreq, hist, clone, flow, account,
          text, poller>>

----------------------------------------------------------------------------
(* Bounds of the model *)

MaxRequests == 3
MaxTicks == 3
MaxPolls == 3
MaxReply == 5
MaxMessages == 3

(* Program constants *)

PENDING_TTL_SECONDS == 300

Threads == {1, 2}
Machines == {"WKS01", "WKS02"}
Runbooks == {"Troubleshoot_KB1", "Troubleshoot_KB2"}

NoThread == 0
None == "<None>"

\* the clock is observed every half TTL
TickStep == PENDING_TTL_SECONDS \div 2
MaxTime == MaxTicks * TickStep

\* a test that takes only None for no value
Falsy_NoneOnly(s) == s = None

\* Python truthiness of an Optional[str]
Falsy(s) == s = None \/ s = ""

----------------------------------------------------------------------------
(* Runbook cloner: utils.create_new_runbook *)

\* what a content source can do: raise for a credential / authorization
\* failure, raise for anything else (not found, ...), give "" or give text;
\* the REST endpoint can also answer with a status other than 200
ContentOutcomes == {"auth_error", "exception", "empty", "content"}
RestOutcomes == {"auth_error", "exception", "non200", "empty", "content"}
CallOutcomes == {"ok", "exception"}

\* the behaviour of the backend during one clone
Envs == [draft : ContentOutcomes, published : ContentOutcomes,
         rest : RestOutcomes, write : CallOutcomes, register : CallOutcomes,
         upload : CallOutcomes, publish : CallOutcomes, job : CallOutcomes]

\* script texts: kind "None" is Python's None, empty marks the string ""
NoneScript == [kind |-> "None", origin |-> "none", of |-> <<>>, empty |-> TRUE]
Script(origin, of, empty) ==
    [kind |-> "str", origin |-> origin, of |-> of, empty |-> empty]

FalsyScript(s) == s.kind = "None" \/ s.empty

\* the call raised: "except Exception" takes every kind alike
Raises(outcome) == outcome \in {"auth_error", "exception"}

\* content_stream.read().decode("utf-8") / str(content_stream)
StoreContent(origin, runbook_name, outcome) ==
    IF outcome = "content" THEN Script(origin, <<runbook_name>>, FALSE)
    ELSE Script(origin, <<runbook_name>>, TRUE)

get_source_content(runbook_name, outcome) ==
    IF outcome = "content" THEN Script("rest", <<runbook_name>>, FALSE)
    ELSE IF outcome = "empty" THEN Script("rest", <<runbook_name>>, TRUE)
    ELSE NoneScript

\* a cloner that works under the name of its source
NewRunbookName_Source(runbook_name, system_name, timestamp) ==
    <<runbook_name>>

\* f"{runbook_name}_{system_name}_{timestamp}": a name is the sequence of
\* the parts it is put together from, so the source name is <<runbook_name>>
NewRunbookName(runbook_name, system_name, timestamp) ==
    <<runbook_name, system_name, timestamp>>

Placeholder(runbook_name, system_name, timestamp) ==
    Script("placeholder",
           NewRunbookName(runbook_name, system_name, timestamp), FALSE)

\* Attempt 1: the draft store is always asked
AfterDraft(runbook_name, env) ==
    [script |-> IF Raises(env.draft) THEN NoneScript
                ELSE StoreContent("draft", runbook_name, env.draft),
     attempts |-> <<"draft">>]

\* a cloner that asks the published store whatever the draft store gave
AfterPublished_Always(runbook_name, env, s) ==
    [script |-> StoreContent("published", runbook_name, env.published),
     attempts |-> s.attempts \o <<"published">>]

\* Attempt 2: the published store, with the REST fallback in its handler
AfterPublished(runbook_name, env, s) ==
    IF ~FalsyScript(s.script) THEN s
    ELSE IF Raises(env.published)
         THEN [script |-> get_source_content(runbook_name, env.rest),
               attempts |-> s.attempts \o <<"published", "rest">>]
         ELSE [script |-> StoreContent("published", runbook_name, env.published),
               attempts |-> s.attempts \o <<"published">>]

\* a cloner without the placeholder
AfterFallback_Missing(runbook_name, system_name, timestamp, s) == s

\* Fallback: the placeholder script
AfterFallback(runbook_name, system_name, timestamp, s) ==
    IF FalsyScript(s.script)
    THEN [script |-> Placeholder(runbook_name, system_name, timestamp),
          attempts |-> s.attempts]
    ELSE s

ResolveContent(runbook_name, system_name, timestamp, env) ==
    AfterFallback(runbook_name, system_name, timestamp,
        AfterPublished(runbook_name, env, AfterDraft(runbook_name, env)))

Call(op, name, content) == [op |-> op, name |-> name, content |-> content]

\* a cloner that goes on after a failed registration
BackendCalls_Continue(new_name, timestamp, script, env) ==
    IF env.write = "exception"
    THEN << Call("write", new_name, script) >>
    ELSE << Call("write", new_name, script),
            Call("register", new_name, NoneScript),
            Call("upload", new_name, script),
            Call("publish", new_name, NoneScript),
            Call("job", <<"job", new_name, timestamp>>, NoneScript) >>

\* a cloner that gives up after a failed upload of the draft content
BackendCalls_StopAtUpload(new_name, timestamp, script, env) ==
    IF env.write = "exception"
    THEN << Call("write", new_name, script) >>
    ELSE IF env.register = "exception"
    THEN << Call("write", new_name, script),
            Call("register", new_name, NoneScript) >>
    ELSE IF env.upload = "exception"
    THEN << Call("write", new_name, script),
            Call("register", new_name, NoneScript),
            Call("upload", new_name, script) >>
    ELSE << Call("write", new_name, script),
            Call("register", new_name, NoneScript),
            Call("upload", new_name, script),
            Call("publish", new_name, NoneScript),
            Call("job", <<"job", new_name, timestamp>>, NoneScript) >>

\* what is done with the composed script, in order: the local file write,
\* then runbook.create_or_update, runbook_draft.begin_replace_content,
\* runbook.begin_publish and job.create.  A failed write raises out of the
\* function, a failed registration returns, the later failures are logged.
BackendCalls(new_name, timestamp, script, env) ==
    IF env.write = "exception"
    THEN << Call("write", new_name, script) >>
    ELSE IF env.register = "exception"
    THEN << Call("write", new_name, script),
            Call("register", new_name, NoneScript) >>
    ELSE << Call("write", new_name, script),
            Call("register", new_name, NoneScript),
            Call("upload", new_name, script),
            Call("publish", new_name, NoneScript),
            Call("job", <<"job", new_name, timestamp>>, NoneScript) >>

\* the failures that create_new_runbook reports with logger.error, in
\* order: a failed write is not caught, so nothing is logged for it; a
\* failed registration is logged and ends the function; failures of the
\* upload, the publish and the job submission are each logged
ErrorLogs(env) ==
    IF env.write = "exception" THEN <<>>
    ELSE IF env.register = "exception" THEN <<"register">>
    ELSE SelectSeq(<<"upload", "publish", "job">>,
                   LAMBDA step : env[step] = "exception")

create_new_runbook(runbook_name, system_name, timestamp, env) ==
    LET c == ResolveContent(runbook_name, system_name, timestamp, env)
        new_name == NewRunbookName(runbook_name, system_name, timestamp)
    IN  [new_runbook_name |-> new_name,
         attempts |-> c.attempts,
         source_script |-> c.script,
         raised |-> env.write = "exception",
         calls |-> BackendCalls(new_name, timestamp, c.script, env),
         logs |-> ErrorLogs(env)]

\* the parameters of "def create_new_runbook(runbook_name, system_name)"
create_new_runbook_Parameters == {"runbook_name", "system_name"}

\* the call create_new_runbook(runbook_name, system_name, **keywords): a
\* keyword that is no parameter raises TypeError before the body runs
Invoke(keywords, runbook_name, system_name, timestamp, env) ==
    IF keywords \subseteq create_new_runbook_Parameters
    THEN create_new_runbook(runbook_name, system_name, timestamp, env)
    ELSE [new_runbook_name |->
              NewRunbookName(runbook_name, system_name, timestamp),
          attempts |-> <<>>,
          source_script |-> NoneScript,
          raised |-> TRUE,
          calls |-> <<>>,
          logs |-> <<>>]

\* f"Runbook '{runbook_name}' executed on {target_machine}"
ExecutedMessage(runbook_name, target_machine) ==
    <<"Runbook '", runbook_name, "' executed on ", target_machine>>

\* troubleshooting_confirm from the call of the cloner on: the success
\* message when the call returned, 500 when it raised
ConfirmResult(runbook_name, target_machine, timestamp, env) ==
    LET c == Invoke({}, runbook_name, target_machine, timestamp, env)
    IN IF c.raised
       THEN [status |-> 500, kind |-> "error", name |-> None,
             message |-> <<"Internal server error">>,
             raised |-> TRUE, calls |-> c.calls]
       ELSE [status |-> 200, kind |-> "executed", name |-> runbook_name,
             message |-> ExecutedMessage(runbook_name, target_machine),
             raised |-> FALSE, calls |-> c.calls]

----------------------------------------------------------------------------
(* State of an idle worker *)

NoReq == [kind |-> "none", machine |-> None, flag |-> FALSE, stale |-> 0]
\* a key that is not in the dict maps to Absent
Absent == [runbook_name |-> None, full_text |-> None, expires_at |-> 0, id |-> 0]
NoLoc == [runbook_name |-> None, entry |-> Absent]
NoResp == [req |-> NoReq, status |-> 0, kind |-> "none", name |-> None, id |-> 0]
NoClone == [phase |-> "off"]
NoFlow == [phase |-> "off"]
NoText == [phase |-> "off"]
NoPoller == [pc |-> "off"]

Init ==
    /\ pending = [m \in Machines |-> Absent]
    /\ lock = NoThread
    /\ now = 0
    /\ pc = [t \in Threads |-> "idle"]
    /\ req = [t \in Threads |-> NoReq]
    /\ loc = [t \in Threads |-> NoLoc]
    /\ last = NoResp
    /\ nreq = 0
    /\ hist = <<>>
    /\ clone = NoClone
    /\ flow = NoFlow
    /\ account = <<>>
    /\ text = NoText
    /\ poller = NoPoller

----------------------------------------------------------------------------
(* The pending store: a dict, so one entry per key *)

Has(store, m) == store[m] # Absent
Keys(store) == {m \in Machines : Has(store, m)}

\* a sweep that keeps an entry at the very instant of its expiry
Expired_Strict(entry, t) == entry.expires_at < t

\* data["expires_at"] <= now
Expired(entry, t) == entry.expires_at <= t

\* a sweep that removes nothing
SweepStore_Nothing(store, t) == store

\* the store after the loop "for machine in expired: del ..."
SweepStore(store, t) ==
    [m \in Machines |-> IF Has(store, m) /\ Expired(store[m], t)
                         THEN Absent ELSE store[m]]

\* a confirm that leaves the entry in place
Delete_Nothing(store, m) == store

\* del PENDING_CONFIRMATIONS[target_machine]
Delete(store, m) == [store EXCEPT ![m] = Absent]

\* the handler returns or raises HTTPException: the response goes out and
\* the worker is free again
Finish(t, status, kind, name, id) ==
    /\ pc' = [pc EXCEPT ![t] = "idle"]
    /\ last' = [req |-> req[t], status |-> status, kind |-> kind,
                name |-> name, id |-> id]
    /\ req' = [req EXCEPT ![t] = NoReq]
    /\ loc' = [loc EXCEPT ![t] = NoLoc]

\* history bookkeeping: what happened to the entries in ids
Mark(h, ids, what) ==
    [i \in DOMAIN h |-> IF i \in ids THEN [h[i] EXCEPT !.fate = Append(@, what)]
                                      ELSE h[i]]

----------------------------------------------------------------------------
(* Requests arrive *)

\* history: the id of the entry of m whose TTL has fully elapsed (0: none)
StaleId(m) == IF Has(pending, m) /\ pending[m].expires_at < now
              THEN pending[m].id ELSE 0

\* a request is served by the first free worker
Free(t) ==
    /\ pc[t] = "idle"
    /\ \A u \in Threads : u < t => pc[u] # "idle"

ReceiveAnalyze(t, m, execute) ==
    /\ Free(t)
    /\ nreq < MaxRequests
    /\ nreq' = nreq + 1
    /\ req' = [req EXCEPT ![t] = [kind |-> "analyze", machine |-> m,
                                   flag |-> execute, stale |-> 0]]
    /\ pc' = [pc EXCEPT ![t] = "sweep"]
    /\ UNCHANGED <<pending, lock, now, loc, last, hist, clone, flow, account, text, poller>>

ReceiveConfirm(t, m, confirm) ==
    /\ Free(t)
    /\ nreq < MaxRequests
    /\ nreq' = nreq + 1
    /\ req' = [req EXCEPT ![t] = [kind |-> "confirm", machine |-> m,
                                   flag |-> confirm, stale |-> StaleId(m)]]
    /\ pc' = [pc EXCEPT ![t] = "sweep"]
    /\ UNCHANGED <<pending, lock, now, loc, last, hist, clone, flow, account, text, poller>>

----------------------------------------------------------------------------
(* cleanup_expired_pending, called first by both troubleshooting handlers *)

\* a locked section that is entered without waiting for the lock
Acquirable_Always(t) == TRUE

\* "with PENDING_LOCK:" blocks until the lock is free
Acquirable(t) == lock = NoThread

\* the whole locked section is one statement group: the lock is taken and
\* released within the step
cleanup_expired_pending(t) ==
    /\ pc[t] = "sweep"
    /\ Acquirable(t)
    /\ pending' = SweepStore(pending, now)
    /\ hist' = Mark(hist, {pending[m].id : m \in Keys(pending)}
                             \ {SweepStore(pending, now)[m].id : m \in Machines},
                    "swept")
    /\ UNCHANGED lock
    /\ pc' = [pc EXCEPT ![t] = IF req[t].kind = "analyze" THEN "agent"
                                ELSE "confirm_read"]
    /\ UNCHANGED <<now, req, loc, last, nreq, clone, flow, account, text, poller>>

----------------------------------------------------------------------------
(* /troubleshooting/analyze after the sweep *)

\* what troubleshooting_process_issue can return: (None, None) when the run
\* failed, raised or gave no text, else (extracted name, full reply)
AgentResults ==
    { [runbook_name |-> None, full_text |-> None],
      [runbook_name |-> "", full_text |-> "- no name"],
      [runbook_name |-> "Troubleshoot_KB1", full_text |-> "Troubleshoot_KB1 - one"],
      [runbook_name |-> "Troubleshoot_KB2", full_text |-> "Troubleshoot_KB2 - two"] }

\* a proposal stored without its time to live
NewEntry_NoTTL(runbook_name, full_text, t, id) ==
    [runbook_name |-> runbook_name, full_text |-> full_text,
     expires_at |-> t, id |-> id]

\* the dict assigned to PENDING_CONFIRMATIONS[target_machine]
NewEntry(runbook_name, full_text, t, id) ==
    [runbook_name |-> runbook_name, full_text |-> full_text,
     expires_at |-> t + PENDING_TTL_SECONDS, id |-> id]

\* an analyze that stores its proposal whatever the execute flag says
StoreRequested_Always(t) == TRUE

\* if req.execute:
StoreRequested(t) == req[t].flag

\* a store that updates the fields of the entry already there one by one and
\* is interrupted before the explanation is written
Propose_Torn(t, r) ==
    LET m == req[t].machine
        e == NewEntry(r.runbook_name, r.full_text, now, Len(hist) + 1)
    IN /\ Acquirable(t)
       /\ pending' = [pending EXCEPT ![m] =
                          IF Has(pending, m)
                          THEN [e EXCEPT !.full_text = pending[m].full_text]
                          ELSE e]
       /\ hist' = Append(Mark(hist, {pending[m].id} \ {0}, "overwritten"),
                         [machine |-> m, entry |-> e, fate |-> <<>>,
                          clones |-> <<>>])
       /\ UNCHANGED lock

\* "with PENDING_LOCK: PENDING_CONFIRMATIONS[...] = {...}", one statement
\* group: the lock is taken and released within the step
Propose(t, r) ==
    LET m == req[t].machine
        e == NewEntry(r.runbook_name, r.full_text, now, Len(hist) + 1)
    IN /\ Acquirable(t)
       /\ pending' = [pending EXCEPT ![m] = e]
       /\ hist' = Append(Mark(hist, {pending[m].id} \ {0}, "overwritten"),
                         [machine |-> m, entry |-> e, fate |-> <<>>,
                          clones |-> <<>>])
       /\ UNCHANGED lock

\* the agent answers; 404 without a name; the proposal is stored when
\* execute was requested; the answer names the runbook.  The agent's answer
\* is local to the handler until it is stored, so the step that stores
\* it is the step that draws it.
AnalyzeWith(t, r) ==
    /\ pc[t] = "agent"
    /\ IF Falsy(r.runbook_name)
       THEN /\ Finish(t, 404, "no_runbook", None, 0)
            /\ UNCHANGED <<pending, lock, hist>>
       ELSE /\ IF StoreRequested(t)
               THEN Propose(t, r)
               ELSE UNCHANGED <<pending, lock, hist>>
            /\ Finish(t, 200, "analyzed", r.runbook_name, 0)
    /\ UNCHANGED <<now, nreq, clone, flow, account, text, poller>>

AnalyzeAgent(t) == \E r \in AgentResults : AnalyzeWith(t, r)

----------------------------------------------------------------------------
(* /troubleshooting/confirm after the sweep *)

\* the lock is taken; pending = PENDING_CONFIRMATIONS.get(target_machine);
\* 404 (leaving the with block) when there is none
ConfirmRead(t) ==
    /\ pc[t] = "confirm_read"
    /\ Acquirable(t)
    /\ IF ~Has(pending, req[t].machine)
       THEN /\ Finish(t, 404, "no_pending", None, 0)
            /\ UNCHANGED lock
       ELSE /\ pc' = [pc EXCEPT ![t] = "confirm_delete"]
            /\ loc' = [loc EXCEPT ![t].entry = pending[req[t].machine]]
            /\ lock' = t
            /\ UNCHANGED <<req, last>>
    /\ UNCHANGED <<pending, now, nreq, hist, clone, flow, account, text, poller>>

\* a with block that is left with the lock still held
Release_Never(t) == lock

\* leaving "with PENDING_LOCK:", by fall-through, return or exception,
\* releases the lock its thread holds
Release(t) == IF lock = t THEN NoThread ELSE lock

\* del PENDING_CONFIRMATIONS[target_machine] on both branches; del of a
\* missing key raises KeyError, which the handler turns into 500; either
\* way the with block is left and the lock released
ConfirmDelete(t) ==
    /\ pc[t] = "confirm_delete"
    /\ lock' = Release(t)
    /\ LET m == req[t].machine IN
       IF ~Has(pending, m)
       THEN /\ Finish(t, 500, "error", None, 0)
            /\ UNCHANGED <<pending, hist>>
       ELSE /\ pending' = Delete(pending, m)
            /\ IF ~req[t].flag
               THEN /\ Finish(t, 200, "cancelled", None, loc[t].entry.id)
                    /\ hist' = Mark(hist, {pending[m].id}, "cancelled")
               ELSE /\ loc' = [loc EXCEPT ![t].runbook_name =
                                               loc[t].entry.runbook_name]
                    /\ hist' = Mark(hist, {pending[m].id}, "consumed")
                    /\ pc' = [pc EXCEPT ![t] = "clone"]
                    /\ UNCHANGED <<req, last>>
    /\ UNCHANGED <<now, nreq, clone, flow, account, text, poller>>

\* the outcomes of a clone that the handler can tell apart
HandlerEnvs ==
    [draft : {"content"}, published : {"content"}, rest : {"content"},
     write : CallOutcomes, register : CallOutcomes,
     upload : {"ok"}, publish : {"ok"}, job : {"ok"}]

\* create_new_runbook(runbook_name, target_machine) outside the lock, then
\* the success message, or 500 when the call raised
ConfirmClone(t) ==
    /\ pc[t] = "clone"
    /\ \E env \in HandlerEnvs :
          LET a == ConfirmResult(loc[t].runbook_name, req[t].machine, now, env)
              id == loc[t].entry.id
          IN /\ hist' = [hist EXCEPT ![id].clones =
                            Append(@, [runbook_name |-> loc[t].runbook_name,
                                       system_name |-> req[t].machine,
                                       raised |-> a.raised])]
             /\ Finish(t, a.status, a.kind, a.name, id)
    /\ UNCHANGED <<pending, lock, now, nreq, clone, flow, account, text, poller>>

----------------------------------------------------------------------------
(* The clock advances.  It is read only to stamp an entry and to test the  *)
(* entries of the store against it, so while the store is empty its value  *)
(* shows nowhere and the model lets it stand.                              *)

Tick ==
    /\ Keys(pending) # {}
    /\ now + TickStep <= MaxTime
    /\ now' = now + TickStep
    /\ UNCHANGED <<pending, lock, pc, req, loc, last, nreq, hist, clone, flow, account, text, poller>>

Next ==
    \/ \E t \in Threads, m \in Machines, b \in BOOLEAN : ReceiveAnalyze(t, m, b)
    \/ \E t \in Threads, m \in Machines, b \in BOOLEAN : ReceiveConfirm(t, m, b)
    \/ \E t \in Threads : cleanup_expired_pending(t)
    \/ \E t \in Threads : AnalyzeAgent(t)
    \/ \E t \in Threads : ConfirmRead(t)
    \/ \E t \in Threads : ConfirmDelete(t)
    \/ \E t \in Threads : ConfirmClone(t)
    \/ Tick

Spec == Init /\ [][Next]_vars

\* the steps of the handler that worker t runs
HandlerStep(t) ==
    \/ cleanup_expired_pending(t)
    \/ AnalyzeAgent(t)
    \/ ConfirmRead(t)
    \/ ConfirmDelete(t)
    \/ ConfirmClone(t)

\* every worker is a thread of the server's pool: one that can take its next
\* step is scheduled in the end; nothing obliges a client to send a request
\* or the clock to advance
SpecFair == Spec /\ \A t \in Threads : WF_vars(HandlerStep(t))

----------------------------------------------------------------------------
(* The cloner on its own: every input and every behaviour of the backend *)

CloneInputs ==
    [phase : {"input"}, runbook_name : Runbooks, system_name : Machines,
     timestamp : {0, TickStep}, env : Envs]

InitClone ==
    /\ pending = [m \in Machines |-> Absent]
    /\ lock = NoThread
    /\ now = 0
    /\ pc = [t \in Threads |-> "idle"]
    /\ req = [t \in Threads |-> NoReq]
    /\ loc = [t \in Threads |-> NoLoc]
    /\ last = NoResp
    /\ nreq = 0
    /\ hist = <<>>
    /\ clone \in CloneInputs
    /\ flow = NoFlow
    /\ account = <<>>
    /\ text = NoText
    /\ poller = NoPoller

CloneRun ==
    /\ clone.phase = "input"
    /\ clone' = [phase |-> "done", runbook_name |-> clone.runbook_name,
                 system_name |-> clone.system_name,
                 timestamp |-> clone.timestamp, env |-> clone.env,
                 result |-> create_new_runbook(clone.runbook_name,
                                clone.system_name, clone.timestamp, clone.env)]
    /\ UNCHANGED <<pending, lock, now, pc, req, loc, last, nreq, hist,
                   flow, account, text, poller>>

NextClone == CloneRun

SpecClone == InitClone /\ [][NextClone]_vars

----------------------------------------------------------------------------
(* Texts of the agent.  A text is the sequence of its pieces; a piece is   *)
(* one of the characters the program looks for (space, line feed, hyphen,  *)
(* en dash) or a run of other characters.                                  *)

Space == " "
Newline == "\n"
Hyphen == "-"
\* the character U+2013
EnDash == "EN DASH"
Prefix == "Troubleshoot_"

Pieces == {Prefix, "KB1", Space, Newline, Hyphen, EnDash}
Texts == UNION {[1..n -> Pieces] : n \in 0..MaxReply}

\* Python's None where a text is expected
NoneText == <<None>>

\* s.split(sep)[0]: the part of s before the first sep, s when it has none
SplitFirst(s, sep) ==
    LET at == {i \in DOMAIN s : s[i] = sep}
    IN IF at = {} THEN s
       ELSE SubSeq(s, 1, (CHOOSE i \in at : \A j \in at : i <= j) - 1)

\* the characters that str.strip() removes, among the pieces of the model
Whitespace == {Space, Newline}

\* an extraction that leaves the white space around the name
StripText_Nothing(s) == s

\* s.strip()
StripText(s) ==
    LET ink == {i \in DOMAIN s : s[i] \notin Whitespace}
    IN IF ink = {} THEN <<>>
       ELSE SubSeq(s, CHOOSE i \in ink : \A j \in ink : i <= j,
                      CHOOSE i \in ink : \A j \in ink : j <= i)

\* troubleshooting_agent.extract_runbook_name
extract_runbook_name(full_text) ==
    IF full_text = <<>> THEN NoneText
    ELSE LET first_line == SplitFirst(full_text, Newline)
         IN StripText(SplitFirst(SplitFirst(first_line, EnDash), Hyphen))

\* how the strings of the model are spelled
Spelling ==
    { [str |-> None, text |-> NoneText],
      [str |-> "", text |-> <<>>],
      [str |-> "Troubleshoot_KB1", text |-> <<Prefix, "KB1">>],
      [str |-> "Troubleshoot_KB2", text |-> <<Prefix, "KB2">>],
      [str |-> "- no name", text |-> <<Hyphen, Space, "no", Space, "name">>],
      [str |-> "vpn is down", text |-> <<"vpn", Space, "is", Space, "down">>],
      [str |-> " \nTroubleshoot_KB1", text |-> <<Space, Newline, Prefix, "KB1">>],
      [str |-> "Troubleshoot_KB1 - one",
       text |-> <<Prefix, "KB1", Space, Hyphen, Space, "one">>],
      [str |-> "Troubleshoot_KB2 - two",
       text |-> <<Prefix, "KB2", Space, Hyphen, Space, "two">>] }

TextOf(str) == (CHOOSE p \in Spelling : p.str = str).text
StrOf(t) == (CHOOSE p \in Spelling : p.text = t).str

\* the transcript of a thread: the messages in ascending order, a message
\* being the list of the values of its text segments (message.text_messages)
Segments == {"", "- no name", "Troubleshoot_KB1 - one"}
Messages == UNION {[1..n -> Segments] : n \in 0..2}
Transcripts == UNION {[1..n -> Messages] : n \in 0..MaxMessages}

\* a scan that keeps the first text it finds
RECURSIVE ScanMessages_First(_, _)
ScanMessages_First(messages, reply) ==
    IF messages = <<>> THEN reply
    ELSE ScanMessages_First(Tail(messages),
             IF Head(messages) # <<>> /\ reply = None
             THEN Head(messages)[Len(Head(messages))]
             ELSE reply)

\* for message in messages:
\*     if message.text_messages: reply = message.text_messages[-1].text.value
RECURSIVE ScanMessages(_, _)
ScanMessages(messages, reply) ==
    IF messages = <<>> THEN reply
    ELSE ScanMessages(Tail(messages),
             IF Head(messages) # <<>>
             THEN Head(messages)[Len(Head(messages))]
             ELSE reply)

----------------------------------------------------------------------------
(* The job output poller: AzureautomationService.get_runbook_output, one   *)
(* call of it step by step, next to the job that the backend runs          *)

\* the statuses that job.get(...).status shows, and those a job stays in
JobStatuses ==
    {"New", "Queued", "Running", "Suspended", "Completed", "Failed", "Stopped"}
JobFinal == {"Completed", "Failed", "Stopped"}

\* str.lower() on the statuses of the model
Lower(s) ==
    CASE s = "New" -> "new"
      [] s = "Queued" -> "queued"
      [] s = "Running" -> "running"
      [] s = "Suspended" -> "suspended"
      [] s = "Completed" -> "completed"
      [] s = "Failed" -> "failed"
      [] s = "Stopped" -> "stopped"
      [] OTHER -> s

\* a poller that compares the status as it is spelled
Terminal_CaseSensitive(job_status) ==
    job_status \in {"completed", "failed", "stopped"}

\* a poller that takes every status for the end of the job
Terminal_Always(job_status) == TRUE

\* job_status.lower() in ["completed", "failed", "stopped"]
Terminal(job_status) == Lower(job_status) \in {"completed", "failed", "stopped"}

\* what the output endpoint does when it is asked
OutputOutcomes == {"ok", "non200", "exception"}

\* the call has been made; nothing was polled yet
PollerInputs ==
    [pc : {"poll"}, job : JobStatuses, status : {None}, polls : {0},
     output : OutputOutcomes, fetched : {FALSE}, text : {None},
     error : {None}]

InitPoll ==
    /\ pending = [m \in Machines |-> Absent]
    /\ lock = NoThread
    /\ now = 0
    /\ pc = [t \in Threads |-> "idle"]
    /\ req = [t \in Threads |-> NoReq]
    /\ loc = [t \in Threads |-> NoLoc]
    /\ last = NoResp
    /\ nreq = 0
    /\ hist = <<>>
    /\ clone = NoClone
    /\ flow = NoFlow
    /\ account = <<>>
    /\ text = NoText
    /\ poller \in PollerInputs

\* job_status = self.client.job.get(...).status and the test that follows;
\* polls counts the polls made, as far as the model counts
PollStatus ==
    /\ poller.pc = "poll"
    /\ poller' = [poller EXCEPT
                     !.status = poller.job,
                     !.polls = IF @ < MaxPolls THEN @ + 1 ELSE @,
                     !.pc = IF Terminal(poller.job) THEN "fetch" ELSE "sleep"]
    /\ UNCHANGED <<pending, lock, now, pc, req, loc, last, nreq, hist, clone, flow, account, text>>

\* job.get raises: nothing catches it inside the function
PollRaises ==
    /\ poller.pc = "poll"
    /\ poller' = [poller EXCEPT !.pc = "raised", !.error = "job.get"]
    /\ UNCHANGED <<pending, lock, now, pc, req, loc, last, nreq, hist, clone, flow, account, text>>

\* time.sleep(5), then the loop starts over
Sleep ==
    /\ poller.pc = "sleep"
    /\ poller' = [poller EXCEPT !.pc = "poll"]
    /\ UNCHANGED <<pending, lock, now, pc, req, loc, last, nreq, hist, clone, flow, account, text>>

\* after the loop: get_rest_token and requests.get of the job output; 200
\* returns response.text, any other status returns None, an exception
\* leaves the function
FetchOutput ==
    /\ poller.pc = "fetch"
    /\ poller' = [poller EXCEPT
                     !.fetched = TRUE,
                     !.pc = IF poller.output = "exception"
                            THEN "raised" ELSE "returned",
                     !.text = IF poller.output = "ok" THEN "output" ELSE None,
                     !.error = IF poller.output = "exception"
                               THEN "fetch" ELSE None]
    /\ UNCHANGED <<pending, lock, now, pc, req, loc, last, nreq, hist, clone, flow, account, text>>

\* the backend moves the job on while the call is under way
JobAdvance ==
    /\ poller.pc \in {"poll", "sleep", "fetch"}
    /\ poller.job \notin JobFinal
    /\ \E s \in JobStatuses \ {poller.job} :
          poller' = [poller EXCEPT !.job = s]
    /\ UNCHANGED <<pending, lock, now, pc, req, loc, last, nreq, hist, clone, flow, account, text>>

\* the steps of the thread that runs get_runbook_output
PollerStep == PollStatus \/ PollRaises \/ Sleep \/ FetchOutput

NextPoll == PollerStep \/ JobAdvance

SpecPoll == InitPoll /\ [][NextPoll]_vars

\* the thread that runs the call goes on as long as it has a step to take:
\* job.get, time.sleep and requests.get each come back or raise
SpecPollFair == SpecPoll /\ WF_vars(PollerStep)

----------------------------------------------------------------------------
(* One request through one handler: /diagnostic/chat of main.py, the Azure *)
(* Function main of apitimeissue.py, /troubleshooting/analyze, and         *)
(* /troubleshooting/confirm from the point where it has obtained an entry  *)

Issues == {"", "  ", "vpn is down"}

\* str.strip() on the issue texts of the model
Strip(s) == IF s = "  " THEN "" ELSE s

\* not issue.strip()
Blank(issue) == Strip(issue) = ""

\* how the agent run went: a call of the agents client raised, the run
\* ended "failed", or it ended otherwise; reply is the text of the last text
\* message of the thread (None: there is no text message)
RunStatuses == {"completed", "failed", "exception"}
DiagnosticReplies == {None, "", "Diagnose_KB1"}
DiagnosticRuns == [status : RunStatuses, reply : DiagnosticReplies]
TroubleshootRuns ==
    [status : RunStatuses, reply : {r.full_text : r \in AgentResults}]

\* diagnostic_agent.process_issue: always a pair (runbook_name, time_logger)
diagnostic_process_issue(run) ==
    [raised |-> FALSE, is_tuple |-> TRUE,
     runbook_name |-> IF run.status = "completed" THEN run.reply ELSE None]

\* FoundryAgentService.resolve_runbook_from_issue of apitimeissue.py:
\* exceptions are not caught, a failed run returns a bare None, any other
\* run returns the pair (resolved_runbook_name, Resolve_Logger)
resolve_runbook_from_issue(run) ==
    IF run.status = "exception"
    THEN [raised |-> TRUE, is_tuple |-> FALSE, runbook_name |-> None]
    ELSE IF run.status = "failed"
    THEN [raised |-> FALSE, is_tuple |-> FALSE, runbook_name |-> None]
    ELSE [raised |-> FALSE, is_tuple |-> TRUE, runbook_name |-> run.reply]

\* troubleshooting_agent.process_issue
troubleshooting_process_issue(run) ==
    IF run.status # "completed" \/ Falsy(run.reply)
    THEN [runbook_name |-> None, full_text |-> None]
    ELSE [runbook_name |-> StrOf(extract_runbook_name(TextOf(run.reply))),
          full_text |-> run.reply]

\* what a handler answers and what it did on the way
Response(status, kind, name, message, agent_called, calls) ==
    [status |-> status, kind |-> kind, name |-> name, message |-> message,
     agent_called |-> agent_called, calls |-> calls, returned |-> TRUE]

\* a chat handler that clones whatever the execute flag says
ExecuteRequested_Always(r) == TRUE

\* if req.execute:
ExecuteRequested(r) == r.execute

\* POST /diagnostic/chat
chat_with_diagnostic_agent(r, timestamp) ==
    IF Blank(r.issue)
    THEN Response(422, "invalid", None, <<"Invalid 'issue' field.">>,
                  FALSE, <<>>)
    ELSE LET a == diagnostic_process_issue(r.run) IN
         IF Falsy(a.runbook_name)
         THEN Response(404, "no_runbook", None,
                       <<"Diagnostic agent returned no runbook.">>, TRUE, <<>>)
         ELSE IF ExecuteRequested(r)
         THEN LET c == Invoke({"time_logger"}, a.runbook_name, r.machine,
                              timestamp, r.env)
              IN IF c.raised
                 THEN Response(500, "error", None,
                               <<"Internal server error">>, TRUE, c.calls)
                 ELSE Response(200, "executed", a.runbook_name,
                               ExecutedMessage(a.runbook_name, r.machine),
                               TRUE, c.calls)
         ELSE Response(200, "ready", a.runbook_name,
                       <<"Runbook ready but not executed.">>, TRUE, <<>>)

\* apitimeissue.validate_request_body
validate_request_body(r) ==
    [raised |-> Blank(r.issue), issue |-> Strip(r.issue),
     execute |-> r.execute, target_machine |-> r.machine]

\* AzureautomationService.fetch_runbook_content: the REST endpoint only
fetch_runbook_content(runbook_name, env) ==
    [raised |-> Raises(env.rest),
     content |-> IF env.rest \in {"content", "empty"}
                 THEN Script("rest", <<runbook_name>>, env.rest = "empty")
                 ELSE NoneScript]

MainSteps == <<"register", "upload", "publish", "job">>

\* AzureautomationService.create_or_update_runbook: create_or_update,
\* begin_replace_content, begin_publish, job.create; the first call that
\* raises ends it
create_or_update_runbook(runbook_name, runbook_content, env) ==
    LET failed == {k \in DOMAIN MainSteps : env[MainSteps[k]] = "exception"}
        n == IF failed = {} THEN Len(MainSteps)
             ELSE CHOOSE k \in failed : \A j \in failed : k <= j
    IN [raised |-> failed # {},
        calls |-> [k \in 1..n |->
                     Call(MainSteps[k],
                          IF MainSteps[k] = "job"
                          THEN <<"job", runbook_name>> ELSE runbook_name,
                          IF MainSteps[k] = "upload"
                          THEN runbook_content ELSE NoneScript)]]

\* AzureautomationService.clone_runbook_with_metadata
clone_runbook_with_metadata(source_runbook_name, system_name, timestamp, env) ==
    LET f == fetch_runbook_content(source_runbook_name, env)
        new_runbook_name ==
            NewRunbookName(source_runbook_name, system_name, timestamp)
        annotated_content == Script("annotated", <<source_runbook_name>>, FALSE)
    IN IF f.raised \/ f.content.kind = "None"
       THEN [raised |-> TRUE, calls |-> <<>>]
       ELSE create_or_update_runbook(new_runbook_name, annotated_content, env)

\* AzureautomationService.get_runbook_output as one call, for a job that
\* shows the status env.poll from the first poll on: the loop ends when the
\* status is terminal, and the output is fetched then
get_runbook_output(env) ==
    [returned |-> Terminal(env.poll),
     raised |-> Terminal(env.poll) /\ env.output = "exception",
     text |-> IF Terminal(env.poll) /\ env.output = "ok"
              THEN "output" ELSE None]

\* the Azure Function entry point of apitimeissue.py
main(r, timestamp) ==
    LET v == validate_request_body(r) IN
    IF v.raised
    THEN Response(400, "invalid", None,
                  <<"Field 'issue' is required and must be a non-empty string.">>,
                  FALSE, <<>>)
    ELSE LET a == resolve_runbook_from_issue(r.run) IN
         IF a.raised \/ ~a.is_tuple
         THEN Response(500, "error", None, <<"Unhandled Server error.">>,
                       TRUE, <<>>)
         ELSE IF Falsy(a.runbook_name)
         THEN Response(404, "no_runbook", None,
                       <<"No Runbook could be resolved for the given issue.">>,
                       TRUE, <<>>)
         ELSE LET c == clone_runbook_with_metadata(a.runbook_name,
                           v.target_machine, timestamp, r.env)
              IN IF c.raised
                 THEN Response(502, "clone_failed", None,
                               <<"Runbook cloning or publishing failed.">>,
                               TRUE, c.calls)
                 ELSE LET o == get_runbook_output(r.env) IN
                      IF ~o.returned
                      THEN [Response(0, "polling", None, <<>>, TRUE, c.calls)
                               EXCEPT !.returned = FALSE]
                      ELSE IF o.raised
                      THEN Response(500, "error", None,
                                    <<"Unhandled Server error.">>, TRUE, c.calls)
                      ELSE Response(200, "success", a.runbook_name,
                               <<"Script to diagnose the issue is saved as runbook",
                                 o.text>>, TRUE, c.calls)

\* /troubleshooting/confirm with confirm=true from the entry it obtained
confirm_obtained(r, timestamp) ==
    LET a == ConfirmResult(r.stored, r.machine, timestamp, r.env)
    IN Response(a.status, a.kind, a.name, a.message, FALSE, a.calls)

\* the backends a handler of main.py can meet, and those main can meet
ChatEnvs ==
    [draft : {"content"}, published : {"content"}, rest : {"content"},
     write : CallOutcomes, register : CallOutcomes, upload : CallOutcomes,
     publish : CallOutcomes, job : CallOutcomes,
     poll : {"Completed"}, output : {"ok"}]
MainEnvs ==
    [draft : {"content"}, published : {"content"},
     rest : {"exception", "non200", "content"},
     write : {"ok"}, register : CallOutcomes, upload : CallOutcomes,
     publish : CallOutcomes, job : CallOutcomes,
     poll : {"Completed", "Running"}, output : OutputOutcomes]
OkEnv ==
    [draft |-> "content", published |-> "content", rest |-> "content",
     write |-> "ok", register |-> "ok", upload |-> "ok", publish |-> "ok",
     job |-> "ok", poll |-> "Completed", output |-> "ok"]
NoRun == [status |-> "completed", reply |-> None]

FlowInputs ==
    [handler : {"chat"}, issue : Issues, execute : BOOLEAN,
     machine : Machines, run : DiagnosticRuns, stored : {None},
     env : ChatEnvs]
    \cup
    [handler : {"main"}, issue : Issues, execute : BOOLEAN,
     machine : Machines, run : DiagnosticRuns, stored : {None},
     env : MainEnvs]
    \cup
    [handler : {"analyze"}, issue : Issues, execute : BOOLEAN,
     machine : Machines, run : TroubleshootRuns, stored : {None},
     env : {OkEnv}]
    \cup
    [handler : {"confirm"}, issue : {""}, execute : {TRUE},
     machine : Machines, run : {NoRun}, stored : Runbooks,
     env : ChatEnvs]

\* the request is in; an analyze request is held by worker 1, which runs
\* the handler's own steps
InitFlow ==
    \E i \in FlowInputs :
        /\ flow = [phase |-> "input", in |-> i]
        /\ pc = [t \in Threads |->
                   IF t = 1 /\ i.handler = "analyze" THEN "sweep" ELSE "idle"]
        /\ req = [t \in Threads |->
                   IF t = 1 /\ i.handler = "analyze"
                   THEN [kind |-> "analyze", machine |-> i.machine,
                         flag |-> i.execute, stale |-> 0]
                   ELSE NoReq]
        /\ nreq = IF i.handler = "analyze" THEN 1 ELSE 0
        /\ pending = [m \in Machines |-> Absent]
        /\ lock = NoThread
        /\ now = 0
        /\ loc = [t \in Threads |-> NoLoc]
        /\ last = NoResp
        /\ hist = <<>>
        /\ clone = NoClone
        /\ account = <<>>
        /\ text = NoText
        /\ poller = NoPoller

FlowRun ==
    /\ flow.phase = "input"
    /\ flow.in.handler \in {"chat", "main", "confirm"}
    /\ LET out == IF flow.in.handler = "chat"
                  THEN chat_with_diagnostic_agent(flow.in, now)
                  ELSE IF flow.in.handler = "main"
                  THEN main(flow.in, now)
                  ELSE confirm_obtained(flow.in, now)
       IN flow' = [phase |-> IF out.returned THEN "done" ELSE "polling",
                   in |-> flow.in, out |-> out]
    /\ UNCHANGED <<pending, lock, now, pc, req, loc, last, nreq, hist,
                   clone, account, text, poller>>

FlowSweep ==
    /\ flow.phase = "input" /\ flow.in.handler = "analyze"
    /\ cleanup_expired_pending(1)

FlowAnalyze ==
    /\ flow.phase = "input" /\ flow.in.handler = "analyze"
    /\ AnalyzeWith(1, troubleshooting_process_issue(flow.in.run))

NextFlow == FlowRun \/ FlowSweep \/ FlowAnalyze

SpecFlow == InitFlow /\ [][NextFlow]_vars

----------------------------------------------------------------------------
(* Clone operations one after another on one Automation account, under a   *)
(* clock that is finer than the timestamp of the derived name              *)

\* the clock of this specification counts half seconds
SecondParts == 2

\* datetime.now().strftime("%Y%m%d_%H%M%S"): the clock cut to whole seconds
strftime(t) == t \div SecondParts

\* the runbook.create_or_update calls among the calls of a clone
Registrations(calls, op) ==
    [k \in DOMAIN SelectSeq(calls, LAMBDA c : c.op = "register") |->
        [name |-> SelectSeq(calls, LAMBDA c : c.op = "register")[k].name,
         op |-> op]]

InitNames ==
    /\ pending = [m \in Machines |-> Absent]
    /\ lock = NoThread
    /\ now = 0
    /\ pc = [t \in Threads |-> "idle"]
    /\ req = [t \in Threads |-> NoReq]
    /\ loc = [t \in Threads |-> NoLoc]
    /\ last = NoResp
    /\ nreq = 0
    /\ hist = <<>>
    /\ clone = NoClone
    /\ flow = NoFlow
    /\ account = <<>>
    /\ text = NoText
    /\ poller = NoPoller

\* one call of create_new_runbook, from reading the clock to its return
NameClone(runbook_name, system_name) ==
    /\ nreq < MaxRequests
    /\ nreq' = nreq + 1
    /\ \E env \in HandlerEnvs :
          account' = account \o
              Registrations(create_new_runbook(runbook_name, system_name,
                                strftime(now), env).calls, nreq + 1)
    /\ UNCHANGED <<pending, lock, now, pc, req, loc, last, hist, clone, flow, text, poller>>

NameTick ==
    /\ now < MaxTicks
    /\ now' = now + 1
    /\ UNCHANGED <<pending, lock, pc, req, loc, last, nreq, hist, clone,
                   flow, account, text, poller>>

NextNames ==
    \/ \E r \in Runbooks, m \in Machines : NameClone(r, m)
    \/ NameTick

SpecNames == InitNames /\ [][NextNames]_vars

----------------------------------------------------------------------------
(* The text functions on their own: the name extraction on every reply of  *)
(* up to MaxReply pieces, and the issue resolvers on every transcript of   *)
(* up to MaxMessages messages                                              *)

\* the issues that reach an agent
ThreadIssues == {issue \in Issues : ~Blank(issue)}

\* what the agent can add to a thread during a run
AgentTranscripts == UNION {[1..n -> Messages] : n \in 0..(MaxMessages - 1)}

\* messages.create(thread_id, role="user", content=issue) on a new thread,
\* the run, then messages.list(thread_id, order=ASCENDING): the issue is the
\* first message of the list, the messages of the agent follow it
Thread(issue, agent) == << <<issue>> >> \o agent

TextInputs ==
    [phase : {"input"}, kind : {"reply"}, in : Texts]
    \cup
    [phase : {"input"}, kind : {"transcript"}, status : RunStatuses,
     in : Transcripts]
    \cup
    [phase : {"input"}, kind : {"thread"}, status : RunStatuses,
     issue : ThreadIssues, in : AgentTranscripts]

InitText ==
    /\ pending = [m \in Machines |-> Absent]
    /\ lock = NoThread
    /\ now = 0
    /\ pc = [t \in Threads |-> "idle"]
    /\ req = [t \in Threads |-> NoReq]
    /\ loc = [t \in Threads |-> NoLoc]
    /\ last = NoResp
    /\ nreq = 0
    /\ hist = <<>>
    /\ clone = NoClone
    /\ flow = NoFlow
    /\ account = <<>>
    /\ text \in TextInputs
    /\ poller = NoPoller

ExtractRun ==
    /\ text.phase = "input" /\ text.kind = "reply"
    /\ text' = [phase |-> "done", kind |-> "reply", in |-> text.in,
                out |-> extract_runbook_name(text.in)]
    /\ UNCHANGED <<pending, lock, now, pc, req, loc, last, nreq, hist, clone, flow, account, poller>>

\* the three issue resolvers on one transcript
ResolveRun ==
    /\ text.phase = "input" /\ text.kind = "transcript"
    /\ LET run == [status |-> text.status,
                   reply |-> ScanMessages(text.in, None)]
       IN text' = [phase |-> "done", kind |-> "transcript",
                   status |-> text.status, in |-> text.in,
                   out |-> [diagnostic |->
                                diagnostic_process_issue(run).runbook_name,
                            resolve |->
                                resolve_runbook_from_issue(run).runbook_name,
                            troubleshooting |->
                                troubleshooting_process_issue(run).full_text]]
    /\ UNCHANGED <<pending, lock, now, pc, req, loc, last, nreq, hist, clone, flow, account, poller>>

\* the three issue resolvers from the issue to their result: the thread is
\* listed whole and scanned without regard to the role of a message
ThreadRun ==
    /\ text.phase = "input" /\ text.kind = "thread"
    /\ LET run == [status |-> text.status,
                   reply |-> ScanMessages(Thread(text.issue, text.in), None)]
       IN text' = [phase |-> "done", kind |-> "thread",
                   status |-> text.status, issue |-> text.issue,
                   in |-> text.in,
                   out |-> [diagnostic |->
                                diagnostic_process_issue(run).runbook_name,
                            resolve |->
                                resolve_runbook_from_issue(run).runbook_name,
                            troubleshooting |->
                                troubleshooting_process_issue(run)]]
    /\ UNCHANGED <<pending, lock, now, pc, req, loc, last, nreq, hist, clone, flow, account, poller>>

NextText == ExtractRun \/ ResolveRun \/ ThreadRun

SpecText == InitText /\ [][NextText]_vars

----------------------------------------------------------------------------
(* /troubleshooting/analyze from the arrival of the request to its answer, *)
(* on every reply of the agent, with the store as an earlier analyze may   *)
(* have left it                                                            *)

\* a reply whose first line holds nothing but white space
BlankFirstLine == " \nTroubleshoot_KB1"

AnalyzeReplies == {r.full_text : r \in AgentResults} \cup {"", BlankFirstLine}
AnalyzeRuns == [status : RunStatuses, reply : AnalyzeReplies]

\* stored: the runbook an earlier analyze with execute=true proposed for the
\* same machine at time 0 (None: there was none); at: the time of arrival
AnalyzeInputs ==
    [handler : {"analyze"}, issue : Issues, execute : BOOLEAN,
     machine : Machines, run : AnalyzeRuns, stored : {None},
     env : {OkEnv}, at : {0}]
    \cup
    [handler : {"analyze"}, issue : Issues, execute : BOOLEAN,
     machine : Machines, run : AnalyzeRuns, stored : Runbooks,
     env : {OkEnv}, at : {0, TickStep, PENDING_TTL_SECONDS}]

\* the entry that the earlier analyze stored
PriorEntry(name) ==
    LET r == CHOOSE r \in AgentResults : r.runbook_name = name
    IN NewEntry(r.runbook_name, r.full_text, 0, 1)

PriorStore(i) ==
    [m \in Machines |-> IF m = i.machine /\ i.stored # None
                         THEN PriorEntry(i.stored) ELSE Absent]

\* the request is held by worker 1; the earlier analyze, if any, has been
\* answered
InitAnalyze ==
    \E i \in AnalyzeInputs :
        /\ flow = [phase |-> "input", in |-> i]
        /\ pc = [t \in Threads |-> IF t = 1 THEN "sweep" ELSE "idle"]
        /\ req = [t \in Threads |->
                   IF t = 1
                   THEN [kind |-> "analyze", machine |-> i.machine,
                         flag |-> i.execute, stale |-> 0]
                   ELSE NoReq]
        /\ pending = PriorStore(i)
        /\ hist = IF i.stored = None THEN <<>>
                  ELSE <<[machine |-> i.machine, entry |-> PriorEntry(i.stored),
                          fate |-> <<>>, clones |-> <<>>]>>
        /\ last = IF i.stored = None THEN NoResp
                  ELSE [req |-> [kind |-> "analyze", machine |-> i.machine,
                                 flag |-> TRUE, stale |-> 0],
                        status |-> 200, kind |-> "analyzed",
                        name |-> i.stored, id |-> 0]
        /\ nreq = IF i.stored = None THEN 1 ELSE 2
        /\ now = i.at
        /\ lock = NoThread
        /\ loc = [t \in Threads |-> NoLoc]
        /\ clone = NoClone
        /\ account = <<>>
        /\ text = NoText
        /\ poller = NoPoller

NextAnalyze == FlowSweep \/ FlowAnalyze

SpecAnalyze == InitAnalyze /\ [][NextAnalyze]_vars

----------------------------------------------------------------------------
(* Properties of the pending confirmation store (specification Spec) *)

\* the id of the entry stored last for machine m, 0 when there was none
LastId(m) ==
    LET ids == {i \in DOMAIN hist : hist[i].machine = m}
    IN IF ids = {} THEN 0 ELSE CHOOSE i \in ids : \A j \in ids : j <= i

InStore(i) == pending[hist[i].machine].id = i

Moved(t, from) == pc[t] = from /\ pc'[t] # from

\* the request answered last was a confirm
LastConfirm == last.req.kind = "confirm"

\* C1: whatever the interleaving of the confirm requests, an entry leaves the
\* store exactly once, at most one confirm=true request obtains it and calls
\* create_new_runbook for it, and a confirm=true request that did not obtain
\* an entry answers 404.
C1_OneConfirmObtains ==
    /\ \A i \in DOMAIN hist :
          /\ IF InStore(i) THEN hist[i].fate = <<>> ELSE Len(hist[i].fate) = 1
          /\ Len(hist[i].clones) <= 1
          /\ hist[i].clones # <<>> => hist[i].fate = <<"consumed">>
    /\ LastConfirm /\ last.req.flag /\ last.id = 0 => last.status = 404
    /\ \A t1, t2 \in Threads :
          t1 # t2 /\ pc[t1] \in {"confirm_delete", "clone"}
                  /\ pc[t2] \in {"confirm_delete", "clone"}
              => loc[t1].entry.id # loc[t2].entry.id

\* two confirm=true requests for one machine overlap: one has obtained the
\* only entry and is about to clone, the other was answered 404 meanwhile
C1_Witness ==
    \E t \in Threads :
        /\ pc[t] = "clone" /\ req[t].flag
        /\ LastConfirm /\ last.req.flag /\ last.req.stale = 0
        /\ last.req.machine = req[t].machine
        /\ last.status = 404
        /\ Len(hist) = 1 /\ hist[1].fate = <<"consumed">>

\* C2: a confirm=true answered with the success message has called the
\* cloner once, with the runbook_name of the entry stored for its machine,
\* and names that runbook_name; the consumed entry is gone from the store,
\* and a confirm that finds no entry answers 404 and changes nothing.
C2_ConfirmExecutesStored ==
    /\ [](last.kind = "executed" =>
            /\ LastConfirm /\ last.req.flag
            /\ last.id \in DOMAIN hist
            /\ last.status = 200
            /\ last.name = hist[last.id].entry.runbook_name
            /\ last.req.machine = hist[last.id].machine
            /\ hist[last.id].clones =
                  << [runbook_name |-> hist[last.id].entry.runbook_name,
                      system_name |-> hist[last.id].machine,
                      raised |-> FALSE] >>)
    /\ [](\A i \in DOMAIN hist : hist[i].fate = <<"consumed">> => ~InStore(i))
    /\ [][\A t \in Threads :
            Moved(t, "confirm_read") /\ ~Has(pending, req[t].machine) =>
               /\ last'.req = req[t] /\ last'.status = 404
               /\ pending' = pending /\ hist' = hist]_vars

\* a confirm within the TTL called the cloner, which returned, and the next
\* confirm for the same machine, with no analyze since, was answered 404
C2_Witness ==
    /\ LastConfirm /\ last.kind = "no_pending" /\ last.req.stale = 0
    /\ LET i == LastId(last.req.machine)
       IN /\ i # 0
          /\ hist[i].fate = <<"consumed">>
          /\ Len(hist[i].clones) = 1 /\ ~hist[i].clones[1].raised
          /\ now < hist[i].entry.expires_at

\* C3: a confirm that arrives when the TTL of the entry of its machine has
\* fully elapsed never obtains that entry (so never clones from it), and
\* answers 404 unless an analyze has stored a new entry since.
C3_ExpiredNotConfirmable ==
    /\ \A t \in Threads :
          req[t].kind = "confirm" /\ req[t].stale # 0 =>
              loc[t].entry.id # req[t].stale
    /\ LastConfirm /\ last.req.stale # 0 =>
          /\ last.id # last.req.stale
          /\ LastId(last.req.machine) = last.req.stale => last.status = 404

\* such a confirm was answered 404 for an entry that nobody cancelled or
\* consumed: the sweep removed it
C3_Witness ==
    /\ LastConfirm /\ last.req.flag /\ last.req.stale # 0
    /\ last.status = 404
    /\ hist[last.req.stale].fate = <<"swept">>
    /\ hist[last.req.stale].clones = <<>>

\* C4 as stated: the sweep removes the entries with expires_at < now and
\* keeps, unchanged, those with expires_at >= now.
C4_SweepAsStated ==
    [][\A t \in Threads : Moved(t, "sweep") =>
          \A m \in Keys(pending) :
              IF pending[m].expires_at < now THEN ~Has(pending', m)
              ELSE pending'[m] = pending[m]]_vars

\* C4 amended: the sweep removes the entries with expires_at <= now and
\* keeps, unchanged, those with expires_at > now; it adds nothing.
C4_SweepCorrect ==
    [][\A t \in Threads : Moved(t, "sweep") =>
          \A m \in Machines :
              IF Has(pending, m) /\ pending[m].expires_at > now
              THEN pending'[m] = pending[m]
              ELSE ~Has(pending', m)]_vars

\* a sweep removed an entry while another entry, stored before the first
\* one expired, stayed in the store
C4_Witness ==
    \E i, j \in DOMAIN hist :
        /\ hist[i].fate = <<"swept">>
        /\ hist[j].fate = <<>> /\ InStore(j)
        /\ hist[j].entry.expires_at - PENDING_TTL_SECONDS
               < hist[i].entry.expires_at

\* C5: at most one live proposal per machine; an analyze with execute=true
\* that got a name sets the entry of its machine to that name and the
\* reply it came with, with expires_at = now + TTL, and touches no other
\* key; an overwritten proposal is never obtained by a confirm.
C5_ProposeOverwrites ==
    /\ [](\A m \in Machines :
            Cardinality({i \in DOMAIN hist :
                            hist[i].machine = m /\ hist[i].fate = <<>>}) <= 1)
    /\ [](\A i \in DOMAIN hist :
            hist[i].fate = <<"overwritten">> =>
                hist[i].clones = <<>> /\ ~InStore(i))
    /\ [][\A t \in Threads :
            Moved(t, "agent") /\ req[t].flag /\ last'.kind = "analyzed" =>
               LET e == pending'[req[t].machine]
               IN /\ e.runbook_name = last'.name
                  /\ [runbook_name |-> e.runbook_name,
                      full_text |-> e.full_text] \in AgentResults
                  /\ e.expires_at = now + PENDING_TTL_SECONDS
                  /\ e.id = Len(hist') /\ e.id > Len(hist)
                  /\ \A m \in Machines \ {req[t].machine} :
                        pending'[m] = pending[m]
         ]_vars

\* a proposal was replaced by a different one for the same machine
C5_Witness ==
    \E i \in DOMAIN hist :
        /\ hist[i].fate = <<"overwritten">>
        /\ LET j == LastId(hist[i].machine)
           IN /\ InStore(j)
              /\ hist[j].entry.runbook_name # hist[i].entry.runbook_name
              /\ hist[j].entry.full_text # hist[i].entry.full_text
              /\ hist[j].entry.expires_at > hist[i].entry.expires_at

\* C6: a confirm=false that finds an entry removes it and answers the
\* cancelled message without a clone; a cancelled proposal is never cloned.
C6_DenyCancels ==
    /\ LastConfirm /\ ~last.req.flag =>
          /\ last.kind \in {"cancelled", "no_pending"}
          /\ last.kind = "cancelled" =>
                /\ last.status = 200
                /\ last.id \in DOMAIN hist
                /\ hist[last.id].machine = last.req.machine
                /\ hist[last.id].fate = <<"cancelled">>
    /\ \A i \in DOMAIN hist :
          "cancelled" \in {hist[i].fate[k] : k \in DOMAIN hist[i].fate} =>
              /\ hist[i].fate = <<"cancelled">>
              /\ hist[i].clones = <<>>
              /\ ~InStore(i)

\* a proposal was denied and a later confirm=true for the machine got 404
C6_Witness ==
    /\ LastConfirm /\ last.req.flag /\ last.status = 404
    /\ last.req.stale = 0
    /\ LET i == LastId(last.req.machine)
       IN i # 0 /\ hist[i].fate = <<"cancelled">>

\* C7: a key becomes Pending, or changes its entry, only by an analyze for
\* that key with execute=true whose agent call resolved a name; a Pending
\* key becomes Absent only by the delete step of a confirm for that key or
\* by a sweep that finds it expired.
C7_KeyStateMachine ==
    [][\A m \in Machines :
          /\ Has(pending', m) /\ pending'[m] # pending[m] =>
                \E t \in Threads :
                    /\ Moved(t, "agent")
                    /\ req[t].kind = "analyze" /\ req[t].flag
                    /\ req[t].machine = m
                    /\ last'.kind = "analyzed" /\ ~Falsy(last'.name)
          /\ Has(pending, m) /\ ~Has(pending', m) =>
                \/ \E t \in Threads :
                      /\ Moved(t, "confirm_delete")
                      /\ req[t].kind = "confirm" /\ req[t].machine = m
                \/ \E t \in Threads :
                      /\ Moved(t, "sweep")
                      /\ pending[m].expires_at <= now
      ]_vars

\* a key went from Absent to Pending and back while the other key kept its
\* entry
C7_Witness ==
    \E i, j \in DOMAIN hist :
        /\ hist[i].fate \in {<<"consumed">>, <<"cancelled">>, <<"swept">>}
        /\ ~Has(pending, hist[i].machine)
        /\ hist[j].machine # hist[i].machine
        /\ j < i /\ InStore(j)

\* C8: every step that reads or writes the store is taken by a thread that
\* holds the lock: it finds the lock free and takes it, or holds it since
\* its read; between the read and the delete of a confirm the lock stays
\* with the confirming thread, and nobody else ever holds it.
C8_StoreUnderLock ==
    /\ [](\A t \in Threads : pc[t] = "confirm_delete" => lock = t)
    /\ [](lock # NoThread => pc[lock] = "confirm_delete")
    /\ [][\A t \in Threads :
            \/ Moved(t, "sweep") \/ Moved(t, "confirm_read")
            \/ Moved(t, "confirm_delete")
            \/ Moved(t, "agent") /\ pending' # pending
            => /\ lock = IF pc[t] = "confirm_delete" THEN t ELSE NoThread
               /\ lock' = IF pc'[t] = "confirm_delete" THEN t ELSE NoThread
         ]_vars

\* a thread is between its read and its delete while the other thread
\* waits at the entrance of a locked section
C8_Witness ==
    \E t1, t2 \in Threads :
        /\ pc[t1] = "confirm_delete" /\ lock = t1
        /\ \/ pc[t2] \in {"sweep", "confirm_read"}
           \/ pc[t2] = "agent" /\ req[t2].flag

\* C31: whatever the clock does between the steps of a confirm, the entry
\* that a confirm=true request reads, removes and hands to create_new_runbook
\* has not expired when it is read and removed: its expires_at is later than
\* the current time.
C31_NoExpiredEntryCloned ==
    [][\A t \in Threads :
          /\ req[t].kind = "confirm" /\ req[t].flag
          /\ \/ Moved(t, "confirm_read") /\ Has(pending, req[t].machine)
             \/ Moved(t, "confirm_delete") /\ Has(pending, req[t].machine)
          => pending[req[t].machine].expires_at > now]_vars

\* C32: the runbook that a confirm=true request takes for create_new_runbook
\* is the one named by the analyze answered last for its machine: when the
\* request answered last is an analyze for that machine that named a
\* runbook, with execute=true or false, the entry removed names the same.
C32_ConfirmsLatestAnalyze ==
    [][\A t \in Threads :
          /\ Moved(t, "confirm_delete")
          /\ req[t].kind = "confirm" /\ req[t].flag
          /\ Has(pending, req[t].machine)
          /\ last.req.kind = "analyze" /\ last.kind = "analyzed"
          /\ last.req.machine = req[t].machine
          => pending[req[t].machine].runbook_name = last.name]_vars

\* C33: an entry that a confirm=true request removed stays out of the store
\* whether create_new_runbook returned, failed inside or raised: no step
\* puts an entry back, the clone runs at most once for it, and a later
\* confirm for a machine whose last entry was consumed answers 404.
C33_ConsumedOnce ==
    /\ [](\A i \in DOMAIN hist :
            hist[i].clones # <<>> =>
                /\ ~InStore(i)
                /\ hist[i].fate = <<"consumed">>
                /\ Len(hist[i].clones) = 1)
    /\ [][\A i \in DOMAIN hist : ~InStore(i) => ~InStore(i)']_vars
    /\ [][\A t \in Threads :
            /\ Moved(t, "confirm_read")
            /\ LastId(req[t].machine) # 0
            /\ hist[LastId(req[t].machine)].fate = <<"consumed">>
            => /\ last'.req = req[t] /\ last'.status = 404
               /\ pending' = pending]_vars

\* the clone of a confirm raised, the request was answered 500, and the
\* confirm retried for the same machine was answered 404
\* the positions at which a handler is about to enter a locked section
Waiting(t) ==
    \/ pc[t] \in {"sweep", "confirm_read"}
    \/ pc[t] = "agent" /\ req[t].flag

\* C36: PENDING_LOCK is held only inside the locked section of confirm, by the
\* thread that is in it: never by a thread that enters the sweep or another
\* locked section, never during the agent call or create_new_runbook, never by
\* a thread whose request is answered (404 and cancel included); and every
\* request that waits to enter a locked section gets past it
C36_LockNeverLeaks ==
    /\ [](\A t \in Threads : lock = t <=> pc[t] = "confirm_delete")
    /\ \A t \in Threads :
          /\ (pc[t] = "sweep") ~> (pc[t] # "sweep")
          /\ (pc[t] = "confirm_read") ~> (pc[t] # "confirm_read")
          /\ (pc[t] = "agent") ~> (pc[t] = "idle")

\* a request waits at a locked section while another thread holds the lock
C36_Witness ==
    \E t, u \in Threads :
        /\ t # u /\ lock = u /\ pc[u] = "confirm_delete"
        /\ Waiting(t)

\* C37: whatever analyzes ran concurrently, an entry in the store is in full
\* the proposal of one analyze (name and explanation are one answer of the
\* agent, the expiry is that request's store time plus the TTL); an analyze
\* that stores leaves exactly its own proposal; and a confirm executes the
\* runbook of the proposal it consumed, once
C37_WholeProposal ==
    /\ [](\A m \in Machines : Has(pending, m) =>
            LET i == pending[m].id
            IN /\ i \in DOMAIN hist
               /\ hist[i].machine = m /\ hist[i].entry = pending[m]
               /\ \E r \in AgentResults :
                     /\ pending[m].runbook_name = r.runbook_name
                     /\ pending[m].full_text = r.full_text
               /\ pending[m].expires_at - PENDING_TTL_SECONDS \in 0..now)
    /\ [][\A t \in Threads :
            /\ Moved(t, "agent") /\ req[t].flag /\ last'.status = 200
            => \E r \in AgentResults :
                  /\ r.runbook_name = last'.name
                  /\ pending'[req[t].machine] =
                        NewEntry(r.runbook_name, r.full_text, now, Len(hist'))]_vars
    /\ [](\A i \in DOMAIN hist :
            /\ Len(hist[i].clones) <= 1
            /\ \A k \in DOMAIN hist[i].clones :
                  /\ hist[i].clones[k].runbook_name = hist[i].entry.runbook_name
                  /\ hist[i].clones[k].system_name = hist[i].machine)

\* two analyzes with execute=true for one machine overlap: the second worker
\* is still waiting for the agent when the first has stored its proposal
C37_Witness ==
    /\ nreq = 2 /\ pc[1] = "idle" /\ pc[2] = "agent"
    /\ req[2].kind = "analyze" /\ req[2].flag
    /\ last.req.kind = "analyze" /\ last.req.flag /\ last.status = 200
    /\ last.req.machine = req[2].machine
    /\ Has(pending, req[2].machine)
    /\ pending[req[2].machine].runbook_name = last.name

C33_Witness ==
    /\ LastConfirm /\ last.req.flag /\ last.status = 404
    /\ LET i == LastId(last.req.machine)
       IN /\ i # 0
          /\ hist[i].fate = <<"consumed">>
          /\ Len(hist[i].clones) = 1 /\ hist[i].clones[1].raised
          /\ ~Has(pending, last.req.machine)

----------------------------------------------------------------------------
(* Properties of the cloner (specification SpecClone) *)

\* C9: whatever the three sources do, the script that create_new_runbook
\* writes to the local file and uploads as draft content is a non-empty
\* string.
C9_ContentNonEmpty ==
    clone.phase = "done" =>
        /\ ~FalsyScript(clone.result.source_script)
        /\ \A k \in DOMAIN clone.result.calls :
              clone.result.calls[k].op \in {"write", "upload"} =>
                  ~FalsyScript(clone.result.calls[k].content)

\* no source gave content and the placeholder was written and uploaded
C9_Witness ==
    /\ clone.phase = "done"
    /\ clone.env.draft = "exception" /\ clone.env.published = "exception"
    /\ clone.env.rest = "non200"
    /\ clone.result.source_script.origin = "placeholder"
    /\ \E k \in DOMAIN clone.result.calls :
          /\ clone.result.calls[k].op = "upload"
          /\ clone.result.calls[k].content = clone.result.source_script

\* C10: the sources are attempted in the order draft, published, REST, each
\* at most once, and none after a source that gave non-empty content.
C10_AttemptOrder ==
    clone.phase = "done" =>
        LET a == clone.result.attempts
        IN /\ a \in {<<"draft">>, <<"draft", "published">>,
                      <<"draft", "published", "rest">>}
           /\ clone.env.draft = "content" => a = <<"draft">>
           /\ Len(a) >= 2 /\ clone.env.published = "content"
                 => a = <<"draft", "published">>

\* the draft store failed, the published store gave content and the REST
\* endpoint was not asked
C10_Witness ==
    /\ clone.phase = "done"
    /\ clone.env.draft = "exception" /\ clone.env.published = "content"
    /\ clone.result.attempts = <<"draft", "published">>
    /\ clone.result.source_script.origin = "published"

\* the operations of the backend calls a clone made, in order
CloneOps == [k \in DOMAIN clone.result.calls |-> clone.result.calls[k].op]

\* a source that was attempted failed for a credential / authorization reason
AuthFailed ==
    \/ clone.env.draft = "auth_error"
    \/ /\ \E k \in DOMAIN clone.result.attempts :
             clone.result.attempts[k] = "published"
       /\ clone.env.published = "auth_error"
    \/ /\ \E k \in DOMAIN clone.result.attempts :
             clone.result.attempts[k] = "rest"
       /\ clone.env.rest = "auth_error"

\* C11: the placeholder is used only after all three sources were attempted;
\* when neither the draft nor the published store gave content, whether by
\* raising or by an empty result, the REST endpoint is asked before the
\* placeholder is used.
C11_RestBeforePlaceholder ==
    clone.phase = "done" =>
        /\ clone.result.source_script.origin = "placeholder" =>
              clone.result.attempts = <<"draft", "published", "rest">>
        /\ clone.env.draft # "content" /\ clone.env.published # "content" =>
              \E k \in DOMAIN clone.result.attempts :
                  clone.result.attempts[k] = "rest"

\* C12: when an attempted source fails for a credential / authorization
\* reason, create_new_runbook raises to its caller, and does not go on to
\* register and publish the placeholder.
C12_AuthFailurePropagates ==
    clone.phase = "done" /\ AuthFailed =>
        /\ clone.result.raised
        /\ clone.result.source_script.origin = "placeholder" =>
              \A k \in DOMAIN CloneOps : CloneOps[k] \notin {"register", "publish"}

\* C13: when runbook.create_or_update fails, the clone makes no later call:
\* no draft content upload, no publish, no job submission.
C13_RegisterFailureStops ==
    clone.phase = "done" /\ clone.env.register = "exception" =>
        /\ \A k \in DOMAIN CloneOps : CloneOps[k] \notin {"upload", "publish", "job"}
        /\ clone.env.write = "ok" => CloneOps = <<"write", "register">>

\* the script was retrieved and written, the registration failed, and the
\* failed registration is the last call of the clone
C13_Witness ==
    /\ clone.phase = "done"
    /\ clone.env.draft = "content" /\ clone.env.write = "ok"
    /\ clone.env.register = "exception"
    /\ clone.env.upload = "ok" /\ clone.env.publish = "ok" /\ clone.env.job = "ok"
    /\ ~clone.result.raised
    /\ CloneOps = <<"write", "register">>

\* C26: once the registration succeeded, a failure of the draft content
\* upload is logged and the publish is still attempted after the upload, and
\* no call of the clone deletes or rolls back the runbook it registered
\* under the derived name, whatever fails afterwards.
C26_UploadFailureLogged ==
    clone.phase = "done" /\ clone.env.write = "ok"
                         /\ clone.env.register = "ok" =>
        /\ \E i, j \in DOMAIN CloneOps :
              /\ i < j
              /\ CloneOps[i] = "upload" /\ CloneOps[j] = "publish"
        /\ clone.env.upload = "exception" =>
              \E k \in DOMAIN clone.result.logs : clone.result.logs[k] = "upload"
        /\ \E k \in DOMAIN CloneOps :
              /\ CloneOps[k] = "register"
              /\ clone.result.calls[k].name = clone.result.new_runbook_name
              /\ \A j \in DOMAIN CloneOps :
                    j > k => CloneOps[j] \in {"upload", "publish", "job"}

\* the upload failed after a successful registration, the failure was
\* logged and the publish and the job submission followed
C26_Witness ==
    /\ clone.phase = "done"
    /\ clone.env.write = "ok" /\ clone.env.register = "ok"
    /\ clone.env.upload = "exception" /\ clone.env.publish = "exception"
    /\ clone.result.logs = <<"upload", "publish">>
    /\ CloneOps = <<"write", "register", "upload", "publish", "job">>

\* C27: a failure to write the composed script to the local
\* generated_runbooks directory is not fatal to create_new_runbook: the
\* function does not raise, and registration, upload and publish of the
\* derived runbook are still attempted after the failed write.
C27_LocalWriteNotFatal ==
    clone.phase = "done" /\ clone.env.write = "exception" =>
        /\ ~clone.result.raised
        /\ \A op \in {"register", "upload", "publish"} :
              \E k \in DOMAIN CloneOps : CloneOps[k] = op

\* C29: the job submitted for a cloned runbook is named job_{derived_name}:
\* the word job and the derived runbook name, with nothing else appended.
C29_JobNamedAfterDerived ==
    clone.phase = "done" =>
        \A k \in DOMAIN CloneOps :
            CloneOps[k] = "job" =>
                clone.result.calls[k].name
                    = <<"job", clone.result.new_runbook_name>>

\* C35: create_new_runbook submits the execution job of the derived runbook
\* only after the publish of that runbook succeeded: when the upload or the
\* publish failed, the clone makes no job.create call.
C35_JobOnlyAfterPublish ==
    clone.phase = "done" =>
        \A k \in DOMAIN CloneOps :
            CloneOps[k] = "job" =>
                /\ clone.env.upload = "ok" /\ clone.env.publish = "ok"
                /\ \E j \in 1..(k - 1) : CloneOps[j] = "publish"

----------------------------------------------------------------------------
(* Properties of the request handlers (specification SpecFlow) *)

\* the handler named h has answered, or hangs in its polling loop
Ran(h) == flow.phase \in {"done", "polling"} /\ flow.in.handler = h

\* the request is valid and the diagnostic agent names a runbook for it
DiagResolved ==
    /\ ~Blank(flow.in.issue)
    /\ flow.in.run.status = "completed"
    /\ ~Falsy(flow.in.run.reply)

FlowOps == [k \in DOMAIN flow.out.calls |-> flow.out.calls[k].op]

\* C14: when the registration of the derived runbook fails during a clone,
\* the request that triggered the clone (/troubleshooting/confirm or
\* /diagnostic/chat with execute=true) answers an error, never the success
\* message "Runbook '<name>' executed on <target>".
C14_RegisterFailureIsError ==
    /\ Ran("chat") \/ Ran("confirm")
    /\ \E k \in DOMAIN FlowOps : FlowOps[k] = "register"
    /\ flow.in.env.register = "exception"
    => /\ flow.out.status >= 400
       /\ flow.out.kind # "executed"
       /\ \A n \in Runbooks \cup DiagnosticReplies :
             flow.out.message # ExecutedMessage(n, flow.in.machine)

\* C15: /diagnostic/chat with execute=false and a runbook name resolved by
\* the agent answers 200 with that name and the message "Runbook ready but
\* not executed.", and makes no call of the cloner: no write, register,
\* upload, publish or job submission.
C15_ChatWithoutExecute ==
    Ran("chat") /\ ~flow.in.execute /\ DiagResolved =>
        /\ flow.phase = "done"
        /\ flow.out.status = 200
        /\ flow.out.name = flow.in.run.reply
        /\ flow.out.message = <<"Runbook ready but not executed.">>
        /\ flow.out.calls = <<>>

\* such a request was answered, with a backend on which a clone would have
\* gone through
C15_Witness ==
    /\ Ran("chat") /\ ~flow.in.execute /\ DiagResolved
    /\ flow.in.env = OkEnv
    /\ flow.out.status = 200 /\ flow.out.name = "Diagnose_KB1"
    /\ flow.out.kind = "ready"

\* C16: /diagnostic/chat with a non-empty issue, execute=true, a resolved
\* runbook name and a backend where every call succeeds runs the clone to
\* its end (the job submission) and answers 200 with the runbook name; it
\* does not answer 500.
C16_ChatExecuteCompletes ==
    Ran("chat") /\ flow.in.execute /\ DiagResolved /\ flow.in.env = OkEnv =>
        /\ flow.out.status = 200
        /\ flow.out.name = flow.in.run.reply
        /\ FlowOps = <<"write", "register", "upload", "publish", "job">>

\* C17: in the Azure Function main, a valid request with execute=false for
\* which a runbook name is resolved makes no register, upload, publish or
\* job submission call.
C17_MainExecuteOptional ==
    Ran("main") /\ ~flow.in.execute /\ DiagResolved =>
        \A k \in DOMAIN FlowOps :
            FlowOps[k] \notin {"register", "upload", "publish", "job"}

\* C18: a request whose issue is empty or whitespace-only is rejected in
\* every flow before any remote call: the agent is never invoked and the
\* pending store is never written.
C18_BlankIssueRejected ==
    Blank(flow.in.issue) =>
        /\ Ran("chat") \/ Ran("main") =>
              /\ ~flow.out.agent_called
              /\ flow.out.calls = <<>>
              /\ flow.out.status \in {400, 422}
        /\ flow.in.handler = "analyze" =>
              /\ last.kind \notin {"analyzed", "no_runbook"}
              /\ Keys(pending) = {}

\* C19: when the agent run ends "failed", the request is answered 404 in
\* every flow, never 500 and never a success.
C19_FailedRunIs404 ==
    flow.in.run.status = "failed" /\ ~Blank(flow.in.issue) =>
        /\ Ran("chat") \/ Ran("main") => flow.out.status = 404
        /\ flow.in.handler = "analyze" /\ last.req.kind = "analyze" =>
              last.status = 404

\* the runbook that the clone of the request takes as its source
FlowSource ==
    IF flow.in.handler = "confirm" THEN flow.in.stored ELSE flow.in.run.reply

\* C21: every register, draft upload and publish call that a clone makes,
\* whether the clone goes through or fails, targets the derived runbook
\* name, and the derived name differs from the name of the source runbook:
\* no call of a clone writes to its source.
C21_CloneLeavesSource ==
    Ran("chat") \/ Ran("main") \/ Ran("confirm") =>
        \A k \in DOMAIN flow.out.calls :
            flow.out.calls[k].op \in {"register", "upload", "publish"} =>
                /\ flow.out.calls[k].name
                      = NewRunbookName(FlowSource, flow.in.machine, now)
                /\ flow.out.calls[k].name # <<FlowSource>>

\* a clone of the Azure Function registered, uploaded and failed to publish
C21_Witness ==
    /\ Ran("main") /\ DiagResolved
    /\ flow.in.env.publish = "exception"
    /\ flow.out.status = 502
    /\ FlowOps = <<"register", "upload", "publish">>
    /\ \A k \in DOMAIN flow.out.calls :
          flow.out.calls[k].name = <<"Diagnose_KB1", flow.in.machine, now>>

\* C22: when the job reached a terminal state and the fetch of its output
\* is answered with a status other than 200, the request that awaited the
\* output is answered as a failure, never as 200 with Success=true.
C22_NoOutputIsFailure ==
    /\ Ran("main") /\ flow.phase = "done"
    /\ \E k \in DOMAIN FlowOps : FlowOps[k] = "job"
    /\ flow.in.env.job = "ok"
    /\ flow.in.env.poll \in JobFinal
    /\ flow.in.env.output = "non200"
    => /\ flow.out.status >= 400
       /\ flow.out.kind # "success"

----------------------------------------------------------------------------
(* Properties of the derived names (specification SpecNames) *)

\* C20: no two clone operations produce the same derived name, so no clone
\* registers (create_or_update) over the runbook entity of another clone.
C20_DerivedNamesUnique ==
    \A i, j \in DOMAIN account :
        account[i].op # account[j].op => account[i].name # account[j].name

----------------------------------------------------------------------------
(* Properties of the job output poller (specifications SpecPoll and        *)
(* SpecPollFair)                                                            *)

\* C23: whenever the polled job is in a terminal status (Completed, Failed
\* or Stopped), the call of get_runbook_output comes to its end; the call
\* returns only after it has observed such a status, and after a poll that
\* showed any other status the only way on is the next poll, whatever the
\* number of polls made so far.
C23_PollUntilTerminal ==
    /\ (poller.job \in {"Completed", "Failed", "Stopped"})
           ~> (poller.pc \in {"returned", "raised"})
    /\ [](poller.pc = "returned" =>
             poller.status \in {"Completed", "Failed", "Stopped"})
    /\ [][poller.pc = "sleep" => poller'.pc \in {"sleep", "poll"}]_vars

\* the call returned the output of a job that showed other statuses in the
\* polls before its last
C23_Witness ==
    /\ poller.pc = "returned"
    /\ poller.polls = MaxPolls
    /\ poller.status = "Completed"
    /\ poller.text = "output"

\* C28: the job output is fetched only after a status poll returned a
\* terminal status, whatever its letter case (Completed, Failed, Stopped);
\* while the status observed last is Queued or Running, the call has
\* neither left its loop nor fetched nor returned any output.
C28_FetchAfterTerminal ==
    /\ poller.pc \in {"fetch", "returned"} \/ poller.fetched
                                           \/ poller.text # None =>
          poller.status \in {"Completed", "Failed", "Stopped"}
    /\ poller.status \in {"Queued", "Running"} =>
          /\ ~poller.fetched
          /\ poller.text = None
          /\ poller.pc \in {"poll", "sleep", "raised"}

\* the output was fetched after polls that showed Running and then Failed
C28_Witness ==
    /\ poller.fetched
    /\ poller.polls >= 2
    /\ poller.status = "Failed"
    /\ poller.pc = "returned"

----------------------------------------------------------------------------
(* Properties of the text functions (specification SpecText) *)

\* the extraction has run on a reply
Extracted == text.phase = "done" /\ text.kind = "reply"

\* the resolvers have run on the transcript of a run that did not fail
Resolved ==
    text.phase = "done" /\ text.kind = "transcript"
                        /\ text.status = "completed"

\* C24: for a reply whose first line is "<name> - <text>" or the same with an
\* en dash, <name> holding no dash, extract_runbook_name returns <name>
\* without the white space around it; and the lines after the first have no
\* effect: the reply cut after its first line gives the same result.
C24_NameBeforeDash ==
    Extracted =>
        /\ \A d \in DOMAIN text.in :
              /\ text.in[d] \in {Hyphen, EnDash}
              /\ \A i \in 1..(d - 1) :
                    text.in[i] \notin {Hyphen, EnDash, Newline}
              /\ \E i \in 1..(d - 1) : text.in[i] # Space
              => LET ink == {i \in 1..(d - 1) : text.in[i] # Space}
                     lo == CHOOSE i \in ink : \A j \in ink : i <= j
                     hi == CHOOSE i \in ink : \A j \in ink : j <= i
                 IN text.out = [k \in 1..(hi - lo + 1) |-> text.in[lo + k - 1]]
        /\ \A n \in DOMAIN text.in :
              /\ n > 1
              /\ text.in[n] = Newline
              /\ \A i \in 1..(n - 1) : text.in[i] # Newline
              => text.out = extract_runbook_name(SubSeq(text.in, 1, n - 1))

\* the reply "KB1 <en dash> <text>" followed by a second line gave "KB1"
C24_Witness ==
    /\ Extracted
    /\ text.in = <<"KB1", Space, EnDash, Newline, Prefix>>
    /\ text.out = <<"KB1">>

\* C25: every non-empty result of extract_runbook_name starts with
\* "Troubleshoot_"; for a first line without a dash, the line is returned
\* with that prefix put in front when it does not have it already.
C25_PrefixedName ==
    Extracted /\ text.out # NoneText /\ text.out # <<>> =>
        Head(text.out) = Prefix

\* the last text segment of the last message that has text segments, None
\* when no message has one
LastWithText(messages) ==
    LET with == {i \in DOMAIN messages : messages[i] # <<>>}
        i == CHOOSE i \in with : \A j \in with : j <= i
    IN IF with = {} THEN None ELSE messages[i][Len(messages[i])]

\* C30 as stated: when the run did not fail and the transcript has a last
\* message, the reply returned is the last text segment of that message, and
\* never a segment of an earlier message.
C30_LastMessageAsStated ==
    Resolved /\ text.in # <<>> =>
        LET m == text.in[Len(text.in)]
            reply == IF m = <<>> THEN None ELSE m[Len(m)]
        IN /\ text.out.diagnostic = reply
           /\ text.out.resolve = reply
           /\ Falsy(reply) \/ text.out.troubleshooting = reply

\* C30 amended: when the run did not fail, the reply returned is the last
\* text segment of the last message that has text segments, None when no
\* message has one; messages without text segments are passed over, and the
\* troubleshooting resolver returns None for an empty segment.
C30_LastTextMessage ==
    Resolved =>
        LET reply == LastWithText(text.in)
        IN /\ text.out.diagnostic = reply
           /\ text.out.resolve = reply
           /\ text.out.troubleshooting = IF reply = "" THEN None ELSE reply

\* the last message has no text segment and the reply is the last segment
\* of the message before it
C30_Witness ==
    /\ Resolved
    /\ text.in = << <<"- no name">>,
                    <<"- no name", "Troubleshoot_KB1 - one">>, <<>> >>
    /\ text.out.diagnostic = "Troubleshoot_KB1 - one"
    /\ text.out.troubleshooting = "Troubleshoot_KB1 - one"

\* the texts of the messages the agent wrote to the thread
AgentTexts ==
    UNION {{text.in[i][j] : j \in DOMAIN text.in[i]} : i \in DOMAIN text.in}

\* C34: what a resolver returns for an issue is None or the text of a message
\* of the agent (for the troubleshooting resolver, the name extracted from
\* such a text), never the text of the issue itself, also when the run ended
\* without failing and the agent wrote no message
C34_ReplyWrittenByAgent ==
    text.phase = "done" /\ text.kind = "thread" =>
        /\ text.out.diagnostic \in AgentTexts \cup {None}
        /\ text.out.resolve \in AgentTexts \cup {None}
        /\ text.out.troubleshooting.full_text \in AgentTexts \cup {None}
        /\ text.out.troubleshooting.runbook_name \in
              {StrOf(extract_runbook_name(TextOf(a))) : a \in AgentTexts}
              \cup {None}

----------------------------------------------------------------------------
(* Properties of /troubleshooting/analyze (specification SpecAnalyze) *)

\* the agent replied and extract_runbook_name finds no name in the reply: the
\* reply is empty, its first line is blank, or its first line starts with a
\* dash
NoUsableName ==
    /\ flow.in.run.status = "completed"
    /\ flow.in.run.reply \in {"", BlankFirstLine, "- no name"}

\* C38: when the reply of the agent holds no usable name, the analyze request
\* is answered 404 and stores nothing, whatever execute says: from the agent
\* call to the answer the store is not touched, and after the answer the
\* entry of the target machine is the one an earlier analyze left, if it has
\* not expired by the request's opening sweep, else none
C38_NoNameNoStore ==
    /\ [](NoUsableName /\ pc[1] = "idle" =>
            /\ last.req = [kind |-> "analyze", machine |-> flow.in.machine,
                           flag |-> flow.in.execute, stale |-> 0]
            /\ last.status = 404 /\ last.kind = "no_runbook"
            /\ \A m \in Machines :
                  pending[m] =
                      IF /\ m = flow.in.machine /\ flow.in.stored # None
                         /\ PENDING_TTL_SECONDS > flow.in.at
                      THEN PriorEntry(flow.in.stored) ELSE Absent
            /\ Len(hist) = IF flow.in.stored = None THEN 0 ELSE 1)
    /\ [][NoUsableName /\ Moved(1, "agent") => pending' = pending]_vars

\* execute=true and the reply starts with a dash: the request was answered
\* 404 and the unexpired proposal of the earlier analyze is still the entry
C38_Witness ==
    /\ NoUsableName /\ flow.in.run.reply = "- no name" /\ flow.in.execute
    /\ flow.in.stored = "Troubleshoot_KB1" /\ flow.in.at = TickStep
    /\ pc[1] = "idle" /\ last.status = 404
    /\ pending[flow.in.machine].runbook_name = "Troubleshoot_KB1"
    /\ pending[flow.in.machine].expires_at = PENDING_TTL_SECONDS

====
